---- MODULE Spec2Model ----
(***************************************************************************)
(* A model of tap-rawmysql's extraction core (src/tap_rawmysql/client.py): *)
(*   - conform_record_data_types_and_uuid, the record conformer,           *)
(*   - RawMysqlStream.get_batches, the batch chunker (a generator, modelled*)
(*     statement by statement, every external call able to raise),         *)
(*   - RawMysqlStream.get_records, the query executor (a generator).       *)
(***************************************************************************)
EXTENDS Integers, Sequences, FiniteSets, TLC

\* ------------------------------------------------------------------ bounds
MaxRecords == 4    \* longest source sequence fed to get_batches
MaxBatch == 3      \* largest configured batch_size
MaxRows == 2       \* most rows a query result holds

\* ------------------------------------------------------------------ values
\* A source-native or JSON value: its Python class and a payload.
Val(k, n) == [kind |-> k, v |-> n]
Null == Val("null", 0)
NoneV == <<>>                      \* Python None for a local holding a handle or name

\* Column names of the records given to the conformer on its own.
Keys == {"id", "extra"}

\* ------------------------------------------------------------ the conformer
\* A property's JSON schema: its type and whether "null" is also allowed.
Property(t, n) == [type |-> t, nullable |-> n]

\* singer_sdk's is_boolean_type over the model's schemas (property -> Property).
IsBooleanType(schema, name) == schema[name].type = "boolean"

\* singer_sdk's _conform_primitive_property: temporal values become ISO-8601
\* strings, values of boolean properties become booleans (None stays None),
\* everything else (int, str, Decimal, UUID, None) is returned unchanged.
\* A conversion that tests a boolean property's value for falsiness before it
\* tests it for None, and rejects nothing.
ConformPrimitiveNoneIsFalse(elem, schema, name) ==
    IF elem.kind = "datetime" THEN Val("str", elem.v)
    ELSE IF IsBooleanType(schema, name)
         THEN IF elem.v = 0 THEN Val("bool", 0) ELSE Val("bool", 1)
         ELSE elem

ConformPrimitive(elem, schema, name) ==
    IF elem.kind = "datetime" THEN Val("str", elem.v)
    ELSE IF IsBooleanType(schema, name)
         THEN IF elem.kind = "null" THEN Null
              ELSE IF elem.v = 0 THEN Val("bool", 0) ELSE Val("bool", 1)
         ELSE elem

\* singer_sdk's conform_record_data_types as called at client.py:104: keeps the
\* record's keys that are schema properties, each conformed; drops the others.
conform_record_data_types(record, schema) ==
    [name \in (DOMAIN record) \cap (DOMAIN schema) |->
        ConformPrimitive(record[name], schema, name)]

\* The record's keys that the schema does not declare (reported in a warning).
UnmappedProperties(record, schema) == (DOMAIN record) \ (DOMAIN schema)

\* singer_sdk's _warn_unmapped_properties, reached from the call at
\* client.py:104 with self.name: a function cached on (stream name, the
\* unmapped property names of this record), so it logs one warning, naming all
\* of these properties, the first time this stream meets this set of them.
\* The log is the set of warnings issued, each <<stream name, names>>.
WarnUnmapped(log, stream_name, unmapped) ==
    IF unmapped = {} THEN log ELSE log \cup {<<stream_name, unmapped>>}

\* str(UUID) and float(Decimal): the class changes, the denoted value is kept.
UuidToStr(elem) == Val("str", elem.v)
\* A post-pass that leaves a Decimal as it is.
DecimalKept(elem) == elem
DecimalToFloat(elem) == Val("float", elem.v)

\* client.py:109-113, the post-pass: it walks the ORIGINAL record's items and
\* assigns rec[property_name] for every UUID and Decimal value, whether or not
\* property_name is a key of rec.
PostPassKeys(record) ==
    {name \in DOMAIN record : record[name].kind \in {"uuid", "decimal"}}

conform_record_data_types_and_uuid(record, schema) ==
    LET rec == conform_record_data_types(record, schema)
        fix == PostPassKeys(record)
    IN [name \in (DOMAIN rec) \cup fix |->
          IF name \in fix
          THEN IF record[name].kind = "uuid" THEN UuidToStr(record[name])
               ELSE DecimalToFloat(record[name])
          ELSE rec[name]]

\* ------------------------------------------------------------------- state
VARIABLES
    \* the conformer, called on its own
    cschema,        \* the schema handed to the conformer
    cstream,        \* the name of the stream that made the last call
    cin,            \* the raw record of the last call
    cout,           \* the record the last call returned
    warnings,       \* the unmapped-property warnings logged so far
    \* one run of get_batches
    bpc,            \* position in get_batches
    batch_size,     \* self.batch_size
    source,         \* the records self._sync_records will produce, in order
    pulled,         \* how many of them the for loop has pulled
    record,         \* the loop variable
    sync_id,        \* the run token inside sync_id (uuid4())
    i,              \* chunk index
    chunk_size,     \* records in the open chunk
    filename, f, gz,\* the three locals of the open chunk (NoneV when None)
    files,          \* the storage: file name -> records written, in order
    open_f,         \* file names whose file handle is open
    open_gz,        \* file names whose compression stream is open
    manifests,      \* the manifest entries yielded so far, in order
    berr,           \* the call that raised, "" while none did
    \* one invocation of get_records
    rpc,            \* position in get_records
    stream_config,  \* self.stream_config ("Absent" for a key it lacks)
    forced_replication_method,  \* the Stream attribute, "None" unless forced
    context,        \* the context argument
    state_value,    \* what the state store holds as starting value
    rep_key,        \* local of line 221
    rep_key_val,    \* local
    multiparams,    \* local
    executions,     \* the connection's log: statements executed, with params
    state_reads,    \* calls of get_starting_replication_key_value
    rows_left,      \* rows of the open result not yet read
    yielded,        \* records yielded to the caller
    rerr,           \* the error raised, "" while none was
    \* to_jsonschema_type
    from_type,      \* the argument of the last call
    type_name,      \* local
    jsonschema_type,\* the type dict the last call returned
    terr,           \* the error the last call raised, "" while none was
    \* parse_raw_sql_stream
    discover_config,\* the stream_config argument of the call
    table_schema,   \* the schema the call built
    \* several runs of get_batches, reduced to the names of their files
    runs            \* run -> its stream, position, locals and files opened

cvars == <<cschema, cstream, cin, cout, warnings>>
bvars == <<bpc, batch_size, source, pulled, record, sync_id, i, chunk_size,
           filename, f, gz, files, open_f, open_gz, manifests, berr>>
rvars == <<rpc, stream_config, forced_replication_method, context, state_value,
           rep_key, rep_key_val, multiparams, executions, state_reads,
           rows_left, yielded, rerr>>
tvars == <<from_type, type_name, jsonschema_type, terr, discover_config,
           table_schema>>
mvars == <<runs>>
vars == <<cvars, bvars, rvars, tvars, mvars>>
\* What a step of get_batches cannot touch.
not_batches == <<cvars, rvars, tvars, mvars>>

\* No run of the several has been set up.
MIdle == runs = <<>>

\* ------------------------------------------------------- to_jsonschema_type
\* A string is the sequence of its characters, so that "in" and lower() below
\* are computed as Python computes them.
UpperCase ==
    <<"A", "B", "C", "D", "E", "F", "G", "H", "I", "J", "K", "L", "M",
      "N", "O", "P", "Q", "R", "S", "T", "U", "V", "W", "X", "Y", "Z">>
LowerCase ==
    <<"a", "b", "c", "d", "e", "f", "g", "h", "i", "j", "k", "l", "m",
      "n", "o", "p", "q", "r", "s", "t", "u", "v", "w", "x", "y", "z">>

\* str.lower().
LowerChar(c) ==
    IF \E k \in DOMAIN UpperCase : UpperCase[k] = c
    THEN LowerCase[CHOOSE k \in DOMAIN UpperCase : UpperCase[k] = c]
    ELSE c
Lower(s) == [k \in DOMAIN s |-> LowerChar(s[k])]

\* Python's "s in t" on strings.
IsSubstring(s, t) ==
    LET sub == s
        str == t
    IN  \E k \in 0..(Len(str) - Len(sub)) :
            \A j \in 1..Len(sub) : str[k + j] = sub[j]

\* singer_sdk.typing: the type_dict of each JSON type helper.
TypeDict(t, fmt) == [type |-> t, format |-> fmt]
DateTimeType == TypeDict("string", "date-time")
DateType == TypeDict("string", "date")
TimeType == TypeDict("string", "time")
IntegerType == TypeDict("integer", "")
NumberType == TypeDict("number", "")
StringType == TypeDict("string", "")
BooleanType == TypeDict("boolean", "")

\* A dict is the sequence of its <<key, value>> items in insertion order.
HasKey(d, key) == \E k \in DOMAIN d : d[k][1] = key
DictGet(d, key) == d[CHOOSE k \in DOMAIN d : d[k][1] = key][2]
\* dict.update: a key already present keeps its place and takes the new value,
\* a new key is appended.
DictUpdate(d, u) ==
    [k \in DOMAIN d |->
        IF HasKey(u, d[k][1]) THEN <<d[k][1], DictGet(u, d[k][1])>> ELSE d[k]]
    \o SelectSeq(u, LAMBDA item : ~HasKey(d, item[1]))

\* tap.py:260-277: the dict literal.
SqltypeLiteral ==
    << <<<<"t", "i", "m", "e", "s", "t", "a", "m", "p">>, DateTimeType>>,
       <<<<"d", "a", "t", "e", "t", "i", "m", "e">>, DateTimeType>>,
       <<<<"d", "a", "t", "e">>, DateType>>,
       <<<<"i", "n", "t">>, IntegerType>>,
       <<<<"n", "u", "m", "b", "e", "r">>, NumberType>>,
       <<<<"d", "e", "c", "i", "m", "a", "l">>, NumberType>>,
       <<<<"d", "o", "u", "b", "l", "e">>, NumberType>>,
       <<<<"f", "l", "o", "a", "t">>, NumberType>>,
       <<<<"s", "t", "r", "i", "n", "g">>, StringType>>,
       <<<<"t", "e", "x", "t">>, StringType>>,
       <<<<"c", "h", "a", "r">>, StringType>>,
       <<<<"b", "o", "o", "l">>, BooleanType>>,
       <<<<"v", "a", "r", "i", "a", "n", "t">>, StringType>> >>

\* tap.py:279-286: the entries added by update().
SqltypeAdded ==
    << <<<<"t", "i", "m", "e">>, TimeType>>,
       <<<<"m", "u", "l", "t", "i", "p", "l", "e", "O", "f">>, NumberType>>,
       <<<<"o", "b", "j", "e", "c", "t">>, StringType>> >>

\* A table whose added entries come before the literal's.
SqltypeLookupAddedFirst == DictUpdate(SqltypeAdded, SqltypeLiteral)

sqltype_lookup == DictUpdate(SqltypeLiteral, SqltypeAdded)

\* The entries whose name is in the type name, both lower-cased.
Matches(name) ==
    LET lowered == Lower(name)
    IN  {k \in DOMAIN sqltype_lookup :
            IsSubstring(Lower(sqltype_lookup[k][1]), lowered)}

\* tap.py:301-306: the loop returns at the first match in the dict's order.
to_jsonschema_type(name) ==
    LET found == Matches(name)
    IN  IF found = {}
        THEN DictGet(sqltype_lookup, <<"s", "t", "r", "i", "n", "g">>)
        ELSE sqltype_lookup[CHOOSE k \in found : \A j \in found : k <= j][2]

\* The type names tried: every table key, some other words, and every
\* concatenation of two of these.
Words ==
    {SqltypeLiteral[k][1] : k \in DOMAIN SqltypeLiteral}
    \cup {SqltypeAdded[k][1] : k \in DOMAIN SqltypeAdded}
    \cup {<<"1", "1", "1">>,
          <<"b", "i", "g">>,
          <<"v", "a", "r">>,
          <<"j", "s", "o", "n">>,
          <<"I", "N", "T">>,
          <<"D", "a", "t", "e">>,
          <<"T", "I", "M", "E">>}
TypeNames == Words \cup {a \o b : a, b \in Words}

\* The arguments tried: a str, a TypeEngine instance or class of that name, or
\* any other object.
StrArgs == [class : {"str"}, name : TypeNames]
TypeEngineArgs == [class : {"TypeEngine", "type[TypeEngine]"}, name : Words]
OtherArgs == {[class |-> "object", name |-> <<>>]}

\* The call has not run yet.
NotCalled == type_name = NoneV /\ jsonschema_type = NoneV /\ terr = ""

\* parse_raw_sql_stream has not run.
NotParsed == table_schema = NoneV

TIdle == from_type = NoneV /\ NotCalled /\ discover_config = NoneV /\ NotParsed

\* tap.py:288-306: the call on a str or a TypeEngine.
ToJsonschemaType ==
    /\ NotCalled
    /\ from_type \in StrArgs \cup TypeEngineArgs
    /\ type_name' = from_type.name
    /\ jsonschema_type' = to_jsonschema_type(from_type.name)
    /\ UNCHANGED <<from_type, terr, discover_config, table_schema, cvars, bvars,
                   rvars, mvars>>

\* tap.py:296-298: the call on any other argument is rejected.
ToJsonschemaTypeRejects ==
    /\ NotCalled
    /\ from_type \in OtherArgs
    /\ terr' = "ValueError"
    /\ UNCHANGED <<from_type, type_name, jsonschema_type, discover_config,
                   table_schema, cvars, bvars, rvars, mvars>>

\* -------------------------------------------------------------- get_records
\* Python None among the scalars of this part.
None == "None"
\* Python truthiness of a str, a dict or None.
Truthy(x) == x \notin {None, "", "{}"}

\* dict.get(key, default)
ConfigGet(cfg, key, default) == IF cfg[key] = "Absent" THEN default ELSE cfg[key]

\* client.py:135, self.replication_key
SelfReplicationKey(cfg) == ConfigGet(cfg, "replication_key", None)

\* singer_sdk's Stream.replication_method: the forced method when one is set,
\* else INCREMENTAL exactly when the stream has a replication key.
ReplicationMethod(forced, cfg) ==
    IF forced # None THEN forced
    ELSE IF Truthy(SelfReplicationKey(cfg)) THEN "INCREMENTAL" ELSE "FULL_TABLE"

\* client.py:219
IsIncremental == ReplicationMethod(forced_replication_method, stream_config) = "INCREMENTAL"

\* client.py:216
SqlMissingOnlyNone(sql) == sql = None
SqlMissing(sql) == ~Truthy(sql)

\* client.py:221: the default of the lookup is the context argument.
RepKey(cfg, ctx) == ConfigGet(cfg, "replication_key", ctx)

\* client.py:231-235: the state store's value, else the configured start.
StartingValueConfigFirst(stored, cfg) ==
    IF ConfigGet(cfg, "replication_key_value_start", None) # None
    THEN ConfigGet(cfg, "replication_key_value_start", None) ELSE stored
StartingValue(stored, cfg) ==
    IF stored # None THEN stored
    ELSE ConfigGet(cfg, "replication_key_value_start", None)

\* client.py:237
NoIncrementalValueNever(v) == FALSE
NoIncrementalValue(v) == v = None

\* client.py:246
FullTableBindsAlways(rk) == TRUE
FullTableBinds(rk) == Truthy(rk)

\* client.py:250
NoFullTableValueNever(v) == FALSE
NoFullTableValue(v) == v = None

\* client.py:242, 257
Params(v) == <<[rep_key_val |-> v]>>

RInitLocals ==
    /\ rpc = "start" /\ rep_key = None /\ rep_key_val = None
    /\ multiparams = <<>> /\ executions = <<>> /\ state_reads = 0
    /\ rows_left = 0 /\ yielded = 0 /\ rerr = ""

RIdle ==
    /\ stream_config = [sql |-> "Absent", replication_key |-> "Absent",
                        replication_key_value_start |-> "Absent"]
    /\ forced_replication_method = None /\ context = None /\ state_value = None
    /\ RInitLocals

RFail(msg) == rpc' = "error" /\ rerr' = msg

\* client.py:214-217
GetSql ==
    /\ rpc = "start"
    /\ IF stream_config.sql = "Absent" THEN RFail("KeyError")
       ELSE IF SqlMissing(stream_config.sql) THEN RFail("sql is empty")
       ELSE rpc' = "resolve" /\ rerr' = rerr
    /\ UNCHANGED <<cvars, bvars, tvars, mvars, stream_config, forced_replication_method,
                   context, state_value, rep_key, rep_key_val, multiparams,
                   executions, state_reads, rows_left, yielded>>

\* client.py:219-242: the incremental branch.
ResolveIncremental ==
    /\ rpc = "resolve" /\ IsIncremental
    /\ rep_key' = RepKey(stream_config, context)
    /\ IF ~Truthy(rep_key')
       THEN /\ RFail("no replication_key")
            /\ UNCHANGED <<rep_key_val, multiparams, state_reads>>
       ELSE /\ state_reads' = state_reads + 1
            /\ rep_key_val' = StartingValue(state_value, stream_config)
            /\ IF NoIncrementalValue(rep_key_val')
               THEN RFail("no value") /\ multiparams' = <<>>
               ELSE /\ multiparams' = Params(rep_key_val')
                    /\ rpc' = "execute" /\ rerr' = rerr
    /\ UNCHANGED <<cvars, bvars, tvars, mvars, stream_config, forced_replication_method,
                   context, state_value, executions, rows_left, yielded>>

\* A full-table branch that also asks the state store for a starting value.
ResolveFullTableReadsState ==
    /\ rpc = "resolve" /\ ~IsIncremental
    /\ rep_key' = RepKey(stream_config, context)
    /\ state_reads' = state_reads + 1
    /\ rep_key_val' = ConfigGet(stream_config, "replication_key_value_start", None)
    /\ IF FullTableBinds(rep_key')
       THEN IF NoFullTableValue(rep_key_val')
            THEN RFail("no start") /\ multiparams' = <<>>
            ELSE /\ multiparams' = Params(rep_key_val')
                 /\ rpc' = "execute" /\ rerr' = rerr
       ELSE /\ multiparams' = <<>>
            /\ rpc' = "execute" /\ rerr' = rerr
    /\ UNCHANGED <<cvars, bvars, tvars, mvars, stream_config, forced_replication_method,
                   context, state_value, executions, rows_left, yielded>>

\* client.py:219-223, 243-257: the full-table branch.
ResolveFullTable ==
    /\ rpc = "resolve" /\ ~IsIncremental
    /\ rep_key' = RepKey(stream_config, context)
    /\ rep_key_val' = ConfigGet(stream_config, "replication_key_value_start", None)
    /\ IF FullTableBinds(rep_key')
       THEN IF NoFullTableValue(rep_key_val')
            THEN RFail("no start") /\ multiparams' = <<>>
            ELSE /\ multiparams' = Params(rep_key_val')
                 /\ rpc' = "execute" /\ rerr' = rerr
       ELSE /\ multiparams' = <<>>
            /\ rpc' = "execute" /\ rerr' = rerr
    /\ UNCHANGED <<cvars, bvars, tvars, mvars, stream_config, forced_replication_method,
                   context, state_value, executions, state_reads, rows_left,
                   yielded>>

\* client.py:259-262: the statement is executed and answers with some rows.
Execute ==
    /\ rpc = "execute"
    /\ executions' = Append(executions,
                            [sql |-> stream_config.sql, params |-> multiparams])
    /\ \E n \in 0..MaxRows : rows_left' = n
    /\ rpc' = "rows"
    /\ UNCHANGED <<cvars, bvars, tvars, mvars, stream_config, forced_replication_method,
                   context, state_value, rep_key, rep_key_val, multiparams,
                   state_reads, yielded, rerr>>

\* client.py:259-262: the execution raises (a source I/O error).
ExecuteFailsRetries ==
    /\ rpc = "execute"
    /\ executions' = Append(executions,
                            [sql |-> stream_config.sql, params |-> multiparams])
    /\ rerr' = "execute"
    /\ UNCHANGED <<cvars, bvars, tvars, mvars, rpc, stream_config, forced_replication_method,
                   context, state_value, rep_key, rep_key_val, multiparams,
                   state_reads, rows_left, yielded>>
ExecuteFails ==
    /\ rpc = "execute"
    /\ executions' = Append(executions,
                            [sql |-> stream_config.sql, params |-> multiparams])
    /\ RFail("execute")
    /\ UNCHANGED <<cvars, bvars, tvars, mvars, stream_config, forced_replication_method,
                   context, state_value, rep_key, rep_key_val, multiparams,
                   state_reads, rows_left, yielded>>

\* client.py:262-263: one row is read and yielded.
YieldRow ==
    /\ rpc = "rows" /\ rows_left > 0
    /\ rows_left' = rows_left - 1
    /\ yielded' = yielded + 1
    /\ UNCHANGED <<cvars, bvars, tvars, mvars, rpc, stream_config, forced_replication_method,
                   context, state_value, rep_key, rep_key_val, multiparams,
                   executions, state_reads, rerr>>

\* client.py:262: reading the next row raises.
RowReadFails ==
    /\ rpc = "rows" /\ rows_left > 0
    /\ RFail("fetch")
    /\ UNCHANGED <<cvars, bvars, tvars, mvars, stream_config, forced_replication_method,
                   context, state_value, rep_key, rep_key_val, multiparams,
                   executions, state_reads, rows_left, yielded>>

\* client.py:259-263: the result is exhausted, the generator returns.
RowsExhausted ==
    /\ rpc = "rows" /\ rows_left = 0
    /\ rpc' = "done"
    /\ UNCHANGED <<cvars, bvars, tvars, mvars, stream_config, forced_replication_method,
                   context, state_value, rep_key, rep_key_val, multiparams,
                   executions, state_reads, rows_left, yielded, rerr>>

StreamConfigs ==
    [sql : {"Absent", "", "SELECT"},
     replication_key : {"Absent", "", "updated_at"},
     replication_key_value_start : {"Absent", "c0"}]

\* ------------------------------------------------------------- sample data
IntV(n) == Val("int", n)
SampleSchema ==
    [id |-> Property("integer", FALSE), amt |-> Property("number", TRUE)]
SampleRecords ==
    { [id |-> IntV(1), amt |-> Val("decimal", 15)],
      [id |-> IntV(2), amt |-> Null] }

\* All sequences over S of length at most n.
SeqsUpTo(S, n) == UNION {[1..k -> S] : k \in 0..n}

RunTokens == {1, 2}

\* --------------------------------------------------------------- get_batches
\* client.py:167
\* batch_config.storage.prefix of the sample configuration (client.py:156).
StoragePrefix == "batch-"
FileName(token, idx) == <<StoragePrefix, token, idx>>
\* fs.geturl(filename)
GetUrl(name) == <<"file://", name>>
\* batch_config.encoding
Encoding == [format |-> "jsonl", compression |-> "gzip"]
\* client.py:187, 204: the tuple yielded, (encoding, [file_url]).
ManifestEntryTwice(url) == [encoding |-> Encoding, files |-> <<url, url>>]
ManifestEntry(url) == [encoding |-> Encoding, files |-> <<url>>]

BInitLocals ==
    /\ bpc = "start" /\ pulled = 0 /\ record = <<>> /\ sync_id = 0
    /\ i = 0 /\ chunk_size = 0
    /\ filename = NoneV /\ f = NoneV /\ gz = NoneV
    /\ files = <<>> /\ open_f = {} /\ open_gz = {}
    /\ manifests = <<>> /\ berr = ""

\* client.py:155-164: draw the run token, set the locals, enter the storage.
Start ==
    /\ bpc = "start"
    /\ \E token \in RunTokens : sync_id' = token
    /\ i' = 1 /\ chunk_size' = 0
    /\ filename' = NoneV /\ f' = NoneV /\ gz' = NoneV
    /\ bpc' = "iter"
    /\ UNCHANGED <<not_batches, batch_size, source, pulled, record, files, open_f, open_gz,
                   manifests, berr>>

\* client.py:165: the for loop pulls the next record.
PullRecord ==
    /\ bpc = "iter" /\ pulled < Len(source)
    /\ pulled' = pulled + 1
    /\ record' = source[pulled + 1]
    /\ bpc' = "open"
    /\ UNCHANGED <<not_batches, batch_size, source, sync_id, i, chunk_size, filename, f, gz,
                   files, open_f, open_gz, manifests, berr>>

\* client.py:165: the source is exhausted, the loop ends.
SourceExhausted ==
    /\ bpc = "iter" /\ pulled = Len(source)
    /\ bpc' = "final"
    /\ UNCHANGED <<not_batches, batch_size, source, pulled, record, sync_id, i, chunk_size,
                   filename, f, gz, files, open_f, open_gz, manifests, berr>>

\* client.py:166-169: open a chunk file unless one is open.
NeedsOpen == filename = NoneV \/ f = NoneV \/ gz = NoneV

OpenChunk ==
    /\ bpc = "open" /\ NeedsOpen
    /\ LET name == FileName(sync_id, i) IN
        /\ filename' = name
        /\ f' = name /\ gz' = name
        /\ files' = (name :> <<>>) @@ files
        /\ open_f' = open_f \cup {name}
        /\ open_gz' = open_gz \cup {name}
    /\ bpc' = "conform"
    /\ UNCHANGED <<not_batches, batch_size, source, pulled, record, sync_id, i, chunk_size,
                   manifests, berr>>

KeepChunk ==
    /\ bpc = "open" /\ ~NeedsOpen
    /\ bpc' = "conform"
    /\ UNCHANGED <<not_batches, batch_size, source, pulled, record, sync_id, i, chunk_size,
                   filename, f, gz, files, open_f, open_gz, manifests, berr>>

\* client.py:171-176
ConformRecord ==
    /\ bpc = "conform"
    /\ record' = conform_record_data_types_and_uuid(record, SampleSchema)
    /\ bpc' = "write"
    /\ UNCHANGED <<not_batches, batch_size, source, pulled, sync_id, i, chunk_size,
                   filename, f, gz, files, open_f, open_gz, manifests, berr>>

\* client.py:178-179: the record's line is written, the counter incremented.
WrittenFileOverwrites(content, rec) == <<rec>>
WrittenFile(content, rec) == Append(content, rec)

WriteRecord ==
    /\ bpc = "write"
    /\ files' = [files EXCEPT ![filename] = WrittenFile(@, record)]
    /\ chunk_size' = chunk_size + 1
    /\ bpc' = "check"
    /\ UNCHANGED <<not_batches, batch_size, source, pulled, record, sync_id, i,
                   filename, f, gz, open_f, open_gz, manifests, berr>>

\* client.py:181
ChunkIsFullOffByOne(count, size) == count > size
ChunkIsFull(count, size) == count >= size

\* A check that lets one more record in before it seals a full chunk.
CheckFullAfterNextPull ==
    /\ bpc = "check"
    /\ bpc' = IF ChunkIsFull(chunk_size - 1, batch_size) THEN "seal_gz" ELSE "iter"
    /\ UNCHANGED <<not_batches, batch_size, source, pulled, record, sync_id, i, chunk_size,
                   filename, f, gz, files, open_f, open_gz, manifests, berr>>
CheckFull ==
    /\ bpc = "check"
    /\ bpc' = IF ChunkIsFull(chunk_size, batch_size) THEN "seal_gz" ELSE "iter"
    /\ UNCHANGED <<not_batches, batch_size, source, pulled, record, sync_id, i, chunk_size,
                   filename, f, gz, files, open_f, open_gz, manifests, berr>>

\* client.py:182-183
SealCloseGzForgotten ==
    /\ bpc = "seal_gz"
    /\ gz' = NoneV
    /\ bpc' = "seal_f"
    /\ UNCHANGED <<not_batches, batch_size, source, pulled, record, sync_id, i, chunk_size,
                   filename, f, files, open_f, open_gz, manifests, berr>>
SealCloseGz ==
    /\ bpc = "seal_gz"
    /\ open_gz' = open_gz \ {gz}
    /\ gz' = NoneV
    /\ bpc' = "seal_f"
    /\ UNCHANGED <<not_batches, batch_size, source, pulled, record, sync_id, i, chunk_size,
                   filename, f, files, open_f, manifests, berr>>

\* A seal that drops the file handle without closing it.
SealCloseFForgotten ==
    /\ bpc = "seal_f"
    /\ f' = NoneV
    /\ bpc' = "seal_yield"
    /\ UNCHANGED <<not_batches, batch_size, source, pulled, record, sync_id, i, chunk_size,
                   filename, gz, files, open_f, open_gz, manifests, berr>>

\* client.py:184-185
SealCloseF ==
    /\ bpc = "seal_f"
    /\ open_f' = open_f \ {f}
    /\ f' = NoneV
    /\ bpc' = "seal_yield"
    /\ UNCHANGED <<not_batches, batch_size, source, pulled, record, sync_id, i, chunk_size,
                   filename, gz, files, open_gz, manifests, berr>>

\* client.py:186-187: resolve the url and yield the manifest entry.
SealYield ==
    /\ bpc = "seal_yield"
    /\ manifests' = Append(manifests, ManifestEntry(GetUrl(filename)))
    /\ bpc' = "seal_reset"
    /\ UNCHANGED <<not_batches, batch_size, source, pulled, record, sync_id, i, chunk_size,
                   filename, f, gz, files, open_f, open_gz, berr>>

\* client.py:189-192: the generator is resumed after the yield.
\* A reset that leaves the record counter as it is.
SealResetKeepsCounter ==
    /\ bpc = "seal_reset"
    /\ filename' = NoneV
    /\ i' = i + 1
    /\ bpc' = "iter"
    /\ UNCHANGED <<not_batches, batch_size, source, pulled, record, sync_id, chunk_size, f,
                   gz, files, open_f, open_gz, manifests, berr>>
SealResetKeepsIndex ==
    /\ bpc = "seal_reset"
    /\ filename' = NoneV
    /\ chunk_size' = 0
    /\ bpc' = "iter"
    /\ UNCHANGED <<not_batches, batch_size, source, pulled, record, sync_id, i, f, gz, files,
                   open_f, open_gz, manifests, berr>>
SealReset ==
    /\ bpc = "seal_reset"
    /\ filename' = NoneV
    /\ i' = i + 1
    /\ chunk_size' = 0
    /\ bpc' = "iter"
    /\ UNCHANGED <<not_batches, batch_size, source, pulled, record, sync_id, f, gz, files,
                   open_f, open_gz, manifests, berr>>

\* client.py:194-200: end of input.
FinalCheckDropsOpenChunk ==
    /\ bpc = "final"
    /\ bpc' = "done"
    /\ UNCHANGED <<not_batches, batch_size, source, pulled, record, sync_id, i, chunk_size,
                   filename, f, gz, files, open_f, open_gz, manifests, berr>>
FinalCheck ==
    /\ bpc = "final"
    /\ IF chunk_size > 0
       THEN IF gz = NoneV \/ f = NoneV \/ filename = NoneV
            THEN bpc' = "error" /\ berr' = "ValueError"
            ELSE bpc' = "fin_gz" /\ berr' = berr
       ELSE bpc' = "done" /\ berr' = berr
    /\ UNCHANGED <<not_batches, batch_size, source, pulled, record, sync_id, i, chunk_size,
                   filename, f, gz, files, open_f, open_gz, manifests>>

\* client.py:201
FinCloseGz ==
    /\ bpc = "fin_gz"
    /\ open_gz' = open_gz \ {gz}
    /\ bpc' = "fin_f"
    /\ UNCHANGED <<not_batches, batch_size, source, pulled, record, sync_id, i, chunk_size,
                   filename, f, gz, files, open_f, manifests, berr>>

\* client.py:202
FinCloseF ==
    /\ bpc = "fin_f"
    /\ open_f' = open_f \ {f}
    /\ bpc' = "fin_yield"
    /\ UNCHANGED <<not_batches, batch_size, source, pulled, record, sync_id, i, chunk_size,
                   filename, f, gz, files, open_gz, manifests, berr>>

\* client.py:203-204, then the generator returns.
FinYield ==
    /\ bpc = "fin_yield"
    /\ manifests' = Append(manifests, ManifestEntry(GetUrl(filename)))
    /\ bpc' = "done"
    /\ UNCHANGED <<not_batches, batch_size, source, pulled, record, sync_id, i, chunk_size,
                   filename, f, gz, files, open_f, open_gz, berr>>

\* Every call get_batches makes outside itself can raise; nothing in get_batches
\* catches, so the error leaves the generator (and the `with` of line 164, which
\* closes the storage object, not the chunk's handles). A close that raises
\* may or may not have released its handle.
RaisePoints ==
    {"iter", "conform", "write", "seal_gz", "seal_f", "seal_yield",
     "fin_gz", "fin_f", "fin_yield"}

RaiseSwallowed ==
    /\ \/ bpc \in RaisePoints
       \/ bpc = "open" /\ NeedsOpen
    /\ berr' = bpc
    /\ bpc' = "iter"
    /\ UNCHANGED <<not_batches, batch_size, source, pulled, record, sync_id, i, chunk_size,
                   filename, f, gz, files, open_f, open_gz, manifests>>
Raise ==
    /\ \/ bpc \in RaisePoints
       \/ bpc = "open" /\ NeedsOpen
    /\ berr' = bpc
    /\ bpc' = "error"
    /\ \E released \in BOOLEAN :
         /\ open_gz' = IF bpc \in {"seal_gz", "fin_gz"} /\ released
                       THEN open_gz \ {gz} ELSE open_gz
         /\ open_f' = IF bpc \in {"seal_f", "fin_f"} /\ released
                      THEN open_f \ {f} ELSE open_f
    /\ UNCHANGED <<not_batches, batch_size, source, pulled, record, sync_id, i, chunk_size,
                   filename, f, gz, files, manifests>>

CIdle ==
    /\ cschema = <<>> /\ cstream = "" /\ cin = <<>> /\ cout = <<>>
    /\ warnings = {}

InitBatches ==
    /\ batch_size \in 1..MaxBatch
    /\ source \in SeqsUpTo(SampleRecords, MaxRecords)
    /\ BInitLocals
    /\ MIdle
    /\ CIdle
    /\ RIdle
    /\ TIdle

NextBatches ==
    \/ Start \/ PullRecord \/ SourceExhausted \/ OpenChunk \/ KeepChunk
    \/ ConformRecord \/ WriteRecord \/ CheckFull
    \/ SealCloseGz \/ SealCloseF \/ SealYield \/ SealReset
    \/ FinalCheck \/ FinCloseGz \/ FinCloseF \/ FinYield
    \/ Raise

SpecBatches == InitBatches /\ [][NextBatches]_vars

\* ----------------------------------------------------- the conformer alone
\* The values a raw column takes and the JSON types a schema declares.
RawValues ==
    {Null, IntV(1), Val("uuid", 7), Val("decimal", 15), Val("datetime", 5)}
JsonTypes == {"integer", "string", "boolean"}
Properties == [type : JsonTypes, nullable : BOOLEAN]
\* The streams of one process (self.name).
StreamNames == {"orders", "users"}

\* A mapping from some of the keys to members of S.
PartialMaps(S) == UNION {[D -> S] : D \in SUBSET Keys}
RawRecords == PartialMaps(RawValues)
Schemas == PartialMaps(Properties)

BIdle == batch_size = 1 /\ source = <<>> /\ BInitLocals

InitConform ==
    /\ cschema \in Schemas
    /\ cstream = "" /\ cin = <<>> /\ cout = <<>>
    /\ warnings = {}
    /\ BIdle
    /\ MIdle
    /\ RIdle
    /\ TIdle

\* client.py:96-115: one call of the conformer, by any stream of the process,
\* on any raw record.
ConformCall ==
    /\ \E rec \in RawRecords, name \in StreamNames :
         /\ cstream' = name
         /\ cin' = rec
         /\ cout' = conform_record_data_types_and_uuid(rec, cschema)
         /\ warnings' = WarnUnmapped(warnings, name,
                                     UnmappedProperties(rec, cschema))
    /\ UNCHANGED <<cschema, bvars, rvars, tvars, mvars>>

NextConform == ConformCall

SpecConform == InitConform /\ [][NextConform]_vars

\* ------------------------------------------- get_records, one invocation
InitRecords ==
    /\ stream_config \in StreamConfigs
    /\ forced_replication_method \in {None, "INCREMENTAL", "FULL_TABLE"}
    /\ context \in {None, "{}", "{partition}"}
    /\ state_value \in {None, "s0"}
    /\ RInitLocals
    /\ CIdle
    /\ BIdle
    /\ MIdle
    /\ TIdle

NextRecords ==
    \/ GetSql \/ ResolveIncremental \/ ResolveFullTable
    \/ Execute \/ ExecuteFails \/ YieldRow \/ RowReadFails \/ RowsExhausted

SpecRecords == InitRecords /\ [][NextRecords]_vars

\* ------------------------------------------------ to_jsonschema_type alone
InitTypes ==
    /\ from_type \in StrArgs \cup TypeEngineArgs \cup OtherArgs
    /\ NotCalled
    /\ discover_config = NoneV /\ NotParsed
    /\ CIdle
    /\ BIdle
    /\ MIdle
    /\ RIdle

NextTypes ==
    \/ ToJsonschemaType
    \/ ToJsonschemaTypeRejects

SpecTypes == InitTypes /\ [][NextTypes]_vars

\* --------------------------------------------------- parse_raw_sql_stream
\* Bound: the columns of a stream's configuration.
MaxColumns == 2

ColumnNames == {"num", "ts", "val"}
\* The SQL types of the columns tried.
ColumnTypes == {<<"i", "n", "t">>, <<"d", "a", "t", "e", "t", "i", "m", "e">>}
\* A column definition; nullable is "Absent" when the key is not given.
ColumnDefs ==
    [name : ColumnNames, type : ColumnTypes,
     nullable : {"Absent", "True", "False"}]

\* The column lists tried: up to MaxColumns columns of different names.
ColumnLists ==
    {cols \in UNION {[1..n -> ColumnDefs] : n \in 1..MaxColumns} :
        \A a, b \in DOMAIN cols : a # b => cols[a].name # cols[b].name}

\* The stream configurations given to parse_raw_sql_stream; replication_key
\* is "Absent" when the key is not given.
DiscoverConfigs ==
    [columns : ColumnLists,
     key_properties : SUBSET ColumnNames,
     replication_key : {"Absent"} \cup ColumnNames]

\* tap.py:169: column_def.get("nullable", True).
IsNullable(column_def) == ConfigGet(column_def, "nullable", "True") = "True"

\* A column that is required only when declared not nullable.
RequiredOnlyByNullable(column_def, key_properties, replication_key) ==
    ~IsNullable(column_def)

\* tap.py:175-177: the required argument of th.Property.
Required(column_def, key_properties, replication_key) ==
    \/ ~IsNullable(column_def)
    \/ column_def.name \in key_properties
    \/ column_def.name = replication_key

\* tap.py:165-180: the schema built from the columns. th.Property's to_dict
\* adds "null" to the type of a property that is not required, and
\* PropertiesList.to_dict lists the required property names.
BuildSchema(cfg) ==
    LET key_properties == cfg.key_properties
        replication_key == ConfigGet(cfg, "replication_key", None)
        names == {cfg.columns[k].name : k \in DOMAIN cfg.columns}
        def(name) ==
            cfg.columns[CHOOSE k \in DOMAIN cfg.columns :
                            cfg.columns[k].name = name]
    IN  [properties |->
            [name \in names |->
                Property(to_jsonschema_type(def(name).type).type,
                         ~Required(def(name), key_properties, replication_key))],
         required |->
            {name \in names :
                Required(def(name), key_properties, replication_key)}]

\* tap.py:155-204: the call.
ParseRawSqlStream ==
    /\ discover_config # NoneV
    /\ NotParsed
    /\ table_schema' = BuildSchema(discover_config)
    /\ UNCHANGED <<from_type, type_name, jsonschema_type, terr, discover_config,
                   cvars, bvars, rvars, mvars>>

InitSchema ==
    /\ discover_config \in DiscoverConfigs
    /\ NotParsed
    /\ from_type = NoneV /\ NotCalled
    /\ CIdle
    /\ BIdle
    /\ MIdle
    /\ RIdle

NextSchema == ParseRawSqlStream

SpecSchema == InitSchema /\ [][NextSchema]_vars

\* ------------------------------------------- several runs of get_batches
\* What get_batches does with file names (client.py:155-168, 182-192), for
\* several runs at once. Here a name is the text that the f-strings build, a
\* sequence of characters, so that two different runs could build the same one.

\* Bound: the chunk files one run opens.
MaxIndex == 11

RunIds == {1, 2}
\* self.tap_name and the names of the streams (self.name).
TapName == <<"t", "a", "p">>
StreamIds == {<<"s">>, <<"s", "-", "0">>}
\* batch_config.storage.prefix
PrefixText == <<"b", "/">>
\* The texts of uuid4(): of one length, hyphens at fixed places, hexadecimal
\* digits elsewhere.
HexDigits == {"0", "1"}
Uuids == {<<a, "-", b>> : a, b \in HexDigits}

\* str(i) of an f-string.
DigitChars == <<"0", "1", "2", "3", "4", "5", "6", "7", "8", "9">>
RECURSIVE IntToStr(_)
IntToStr(n) ==
    IF n < 10 THEN <<DigitChars[n + 1]>>
    ELSE IntToStr(n \div 10) \o <<DigitChars[(n % 10) + 1]>>

\* A sync_id that leaves the run token out.
SyncIdWithoutToken(stream, token) == TapName \o <<"-", "-">> \o stream

\* client.py:155: f"{self.tap_name}--{self.name}-{uuid4()}"
SyncId(stream, token) ==
    TapName \o <<"-", "-">> \o stream \o <<"-">> \o token

\* client.py:167: f"{prefix}{sync_id}-{i}.json.gz"
FormatFileName(prefix, sync, idx) ==
    prefix \o sync \o <<"-">> \o IntToStr(idx) \o <<".", "j", "s", "o", "n", ".", "g", "z">>

\* A run before its first statement.
NewRun(stream) ==
    [pc |-> "start", stream |-> stream, token |-> NoneV, sync_id |-> NoneV,
     i |-> 0, filename |-> NoneV, opened |-> {}]

\* The run tokens drawn so far by the other runs.
TokensOfOthers(r) == {runs[o].token : o \in RunIds \ {r}} \ {NoneV}

\* client.py:155-162: a run starts; uuid4() gives it a token of its own.
RunStart ==
    /\ \E r \in RunIds, token \in Uuids :
         /\ runs[r].pc = "start"
         /\ token \notin TokensOfOthers(r)
         /\ runs' = [runs EXCEPT ![r] =
                        [@ EXCEPT !.pc = "iter", !.token = token,
                                  !.sync_id = SyncId(runs[r].stream, token),
                                  !.i = 1]]
    /\ UNCHANGED <<cvars, bvars, rvars, tvars>>

\* client.py:166-168: a record arrives while no chunk is open.
RunOpen ==
    /\ \E r \in RunIds :
         /\ runs[r].pc = "iter" /\ runs[r].filename = NoneV
         /\ runs[r].i <= MaxIndex
         /\ LET name == FormatFileName(PrefixText, runs[r].sync_id, runs[r].i)
            IN  runs' = [runs EXCEPT ![r] =
                            [@ EXCEPT !.filename = name,
                                      !.opened = @ \cup {name}]]
    /\ UNCHANGED <<cvars, bvars, rvars, tvars>>

\* client.py:181-192: the open chunk is full and is sealed.
RunSeal ==
    /\ \E r \in RunIds :
         /\ runs[r].pc = "iter" /\ runs[r].filename # NoneV
         /\ runs' = [runs EXCEPT ![r] =
                        [@ EXCEPT !.filename = NoneV, !.i = @ + 1]]
    /\ UNCHANGED <<cvars, bvars, rvars, tvars>>

\* client.py:194-204: the source ends (or a call fails): the run is over.
RunEnd ==
    /\ \E r \in RunIds :
         /\ runs[r].pc = "iter"
         /\ runs' = [runs EXCEPT ![r] = [@ EXCEPT !.pc = "done"]]
    /\ UNCHANGED <<cvars, bvars, rvars, tvars>>

InitRuns ==
    /\ runs \in [RunIds -> {NewRun(stream) : stream \in StreamIds}]
    /\ CIdle
    /\ BIdle
    /\ RIdle
    /\ TIdle

NextRuns ==
    \/ RunStart
    \/ RunOpen
    \/ RunSeal
    \/ RunEnd

SpecRuns == InitRuns /\ [][NextRuns]_vars

\* ------------------------------------------------------ claims: get_batches
CeilDiv(n, b) == (n + b - 1) \div b
\* The records of the k-th chunk file of the run.
ChunkRecords(k) == files[FileName(sync_id, k)]
\* The file the k-th manifest entry points to.
ManifestFile(k) == manifests[k].files[1][2]
Completed == bpc = "done"

\* C1: a run over N records with chunk size B >= 1 that completes without error
\* has emitted ceil(N/B) manifest entries (0 when N = 0); every chunk but the
\* last holds exactly B records, the last N - B*floor((N-1)/B), between 1 and B.
C1_ChunkCounts ==
    Completed =>
        LET N == Len(source)
            B == batch_size
            M == Len(manifests)
        IN /\ M = (IF N > 0 THEN CeilDiv(N, B) ELSE 0)
           /\ \A k \in 1..M :
                /\ ManifestFile(k) \in DOMAIN files
                /\ Len(files[ManifestFile(k)]) =
                     (IF k < M THEN B ELSE N - B * ((N - 1) \div B))
                /\ Len(files[ManifestFile(k)]) \in 1..B

\* C1's case: a completed run with a full chunk followed by a smaller last one.
C1_Witness ==
    /\ Completed /\ Len(source) = 4 /\ batch_size = 3
    /\ Len(manifests) = 2 /\ Len(ChunkRecords(2)) = 1

RECURSIVE ConcatChunks(_)
ConcatChunks(k) == IF k = 0 THEN <<>> ELSE ConcatChunks(k - 1) \o ChunkRecords(k)

\* The conformed records, in the order the source returns the raw ones.
ConformedSource ==
    [k \in 1..Len(source) |->
        conform_record_data_types_and_uuid(source[k], SampleSchema)]

\* C2: in a run that completes without error the chunk files, concatenated in
\* chunk-index order, hold exactly the conformed records in source order.
C2_OrderPreserved ==
    Completed =>
        /\ DOMAIN files = {FileName(sync_id, k) : k \in 1..Len(manifests)}
        /\ ConcatChunks(Len(manifests)) = ConformedSource

\* C2's case: a completed run of two different records over more than one chunk.
C2_Witness ==
    /\ Completed /\ Len(manifests) >= 2 /\ Len(source) >= 3
    /\ source[1] # source[2] /\ batch_size = 2

\* C3 as stated: no run ends, normally or by an error, with a chunk file handle
\* or compression stream still open.
C3_ClosedOnEveryExit ==
    bpc \in {"done", "error"} => open_f = {} /\ open_gz = {}

\* Positions of get_batches from the end of the loop on.
AtEndOfInput == bpc \in {"final", "fin_gz", "fin_f", "fin_yield", "done"}
\* The names of the first n chunk files of the run.
ChunkNames(n) == {FileName(sync_id, k) : k \in 1..n}

\* C12: at end of input the open chunk is sealed and a last manifest entry
\* emitted exactly when the record counter is greater than 0; after zero records
\* or an exact multiple of the chunk size no file is open or opened and nothing
\* more is emitted; every file opened holds at least one record.
C12_FinalSealIffCounterPositive ==
    /\ bpc \in {"fin_gz", "fin_f", "fin_yield"} => chunk_size > 0
    /\ Completed =>
         /\ IF chunk_size > 0
            THEN /\ Len(manifests) = i
                 /\ filename = FileName(sync_id, i)
                 /\ ManifestFile(i) = filename
            ELSE /\ Len(manifests) = i - 1
                 /\ filename = NoneV
         /\ DOMAIN files = ChunkNames(Len(manifests))
         /\ (Len(source) % batch_size = 0) =>
                /\ chunk_size = 0
                /\ Len(manifests) = Len(source) \div batch_size
    /\ AtEndOfInput => \A name \in DOMAIN files : Len(files[name]) >= 1

\* C12's case: the source ended on a chunk boundary.
C12_Witness ==
    /\ Completed /\ Len(source) = 4 /\ batch_size = 2
    /\ Len(manifests) = 2 /\ chunk_size = 0

\* C12's other case: the source ended inside a chunk.
C12_WitnessPartial ==
    /\ Completed /\ Len(source) = 3 /\ batch_size = 2
    /\ Len(manifests) = 2 /\ chunk_size = 1

\* The files the manifest entries emitted so far point to.
ReportedFiles == {ManifestFile(k) : k \in 1..Len(manifests)}

\* Where a sealing stands, read off the position: before the compression stream
\* is closed both handles are open; then the stream is closed and the file
\* handle open; then both are closed and the entry not yet emitted; then the
\* entry is emitted and the counter not yet reset.
SealingInOrder ==
    /\ bpc \in {"seal_gz", "fin_gz"} =>
         filename \in open_gz /\ filename \in open_f /\ filename \notin ReportedFiles
    /\ bpc \in {"seal_f", "fin_f"} =>
         filename \notin open_gz /\ filename \in open_f /\ filename \notin ReportedFiles
    /\ bpc \in {"seal_yield", "fin_yield"} =>
         filename \notin open_gz /\ filename \notin open_f /\ filename \notin ReportedFiles
    /\ bpc = "seal_reset" =>
         /\ filename \notin open_gz /\ filename \notin open_f
         /\ ManifestFile(Len(manifests)) = filename
         /\ chunk_size = batch_size
    /\ ReportedFiles \cap (open_f \cup open_gz) = {}

\* The step after the entry of a chunk sealed in the loop resets the counter, and
\* no step changes a file a manifest entry points to.
SealingSteps ==
    /\ bpc = "seal_reset" => chunk_size' = 0 /\ manifests' = manifests
    /\ \A name \in ReportedFiles : name \in DOMAIN files' /\ files'[name] = files[name]

Failed == bpc = "error"

\* What holds of a run that an error ended after k = i - 1 chunks were sealed.
FailedRunState ==
    /\ berr # "" => Failed
    /\ Failed =>
         /\ berr # ""
         /\ Len(manifests) = i - 1
         /\ \A k \in 1..Len(manifests) :
              /\ ManifestFile(k) = FileName(sync_id, k)
              /\ Len(files[ManifestFile(k)]) = batch_size
         /\ FileName(sync_id, i) \notin ReportedFiles

\* The step that raises emits nothing and pulls nothing, nor does any later one.
FailedRunSteps ==
    (Failed \/ Failed') => manifests' = manifests /\ pulled' = pulled

\* C14: when the source, the conformer or the storage raises after k chunks
\* were sealed, the error leaves get_batches, the k manifest entries emitted
\* stay as they are, the chunk being written gets no entry and no further
\* record is pulled.
C14_ErrorKeepsEmitted == []FailedRunState /\ [][FailedRunSteps]_vars

\* C14's case: the conformer raised on the second chunk's second record.
C14_Witness ==
    /\ Failed /\ berr = "conform" /\ batch_size = 2
    /\ Len(manifests) = 1 /\ chunk_size = 1 /\ pulled = 4

\* The chunk index against the entries emitted: one ahead, except between an
\* entry and the increment that follows it (and after the last entry of all).
IndexMatchesEntries ==
    /\ bpc # "start" =>
         /\ i >= 1
         /\ i = Len(manifests) +
                (IF bpc = "seal_reset" \/ (Completed /\ chunk_size > 0) THEN 0 ELSE 1)
    /\ \A k \in 1..Len(manifests) :
         ManifestFile(k) = <<StoragePrefix, sync_id, k>>
    /\ \A name \in DOMAIN files :
         \E k \in 1..i : name = <<StoragePrefix, sync_id, k>>

\* The index moves by one and only after an entry; a step that opens a file
\* opens one whose name no earlier file of the run has.
IndexSteps ==
    /\ bpc # "start" => i' = (IF bpc = "seal_reset" THEN i + 1 ELSE i)
    /\ bpc = "start" => i' = 1
    /\ (bpc = "open" /\ filename' # filename) =>
           /\ filename' \notin DOMAIN files
           /\ DOMAIN files' = DOMAIN files \cup {filename'}

\* C15: in one run the chunk index starts at 1 and grows by exactly 1 with each
\* sealed chunk, the k-th manifest entry points to <prefix><sync_id>-k.json.gz
\* and the names of the files opened are pairwise distinct.
C15_ChunkIndex == []IndexMatchesEntries /\ [][IndexSteps]_vars

\* C15's case: a third file was opened after two entries.
C15_Witness ==
    /\ Cardinality(DOMAIN files) = 3 /\ i = 3 /\ Len(manifests) = 2
    /\ filename = <<StoragePrefix, sync_id, 3>>

\* C16: every manifest entry pairs the configured encoding with a list of
\* exactly one file location; no chunk is reported by two entries, and in a
\* completed run every chunk file is reported by one.
C16_OneEntryPerChunk ==
    /\ \A k \in 1..Len(manifests) :
         /\ manifests[k].encoding = [format |-> "jsonl", compression |-> "gzip"]
         /\ Len(manifests[k].files) = 1
         /\ manifests[k].files[1] = GetUrl(<<StoragePrefix, sync_id, k>>)
    /\ \A j, k \in 1..Len(manifests) :
         manifests[j].files[1] = manifests[k].files[1] => j = k
    /\ ReportedFiles \subseteq DOMAIN files
    /\ Completed => ReportedFiles = DOMAIN files
                    /\ Len(manifests) = Cardinality(DOMAIN files)

\* C16's case: a completed run of three chunks.
C16_Witness ==
    /\ Completed /\ Len(manifests) = 3 /\ Cardinality(DOMAIN files) = 3
    /\ \A k \in 1..3 : Len(manifests[k].files) = 1

\* The three locals of the open chunk.
AllSet == filename # NoneV /\ f # NoneV /\ gz # NoneV
AllUnset == filename = NoneV /\ f = NoneV /\ gz = NoneV

\* C24: each time a record is about to be pulled and at end of input, the file
\* name, the file handle and the compression stream are all set or all unset,
\* and all set exactly when the record counter is positive; and no run ends in
\* one of the ValueErrors of the end-of-input checks.
C24_LocalsConsistent ==
    /\ bpc \in {"iter", "final"} =>
         /\ AllSet \/ AllUnset
         /\ AllSet <=> chunk_size > 0
    /\ berr # "ValueError"

\* C24's cases: a record is about to be pulled into an open chunk that holds
\* one record, after a chunk was sealed;
C24_Witness ==
    /\ bpc = "iter" /\ pulled < Len(source)
    /\ AllSet /\ chunk_size = 1 /\ Len(manifests) = 1

\* and the end of input is reached right after a seal, with nothing open.
C24_WitnessEnd ==
    bpc = "final" /\ AllUnset /\ chunk_size = 0 /\ Len(manifests) = 2

\* The records in the chunks that the first k manifest entries report.
RECURSIVE RecordsReported(_)
RecordsReported(k) ==
    IF k = 0 THEN 0 ELSE RecordsReported(k - 1) + Len(files[ManifestFile(k)])

\* The records pulled from the source and not yet in a reported chunk.
Unreported == pulled - RecordsReported(Len(manifests))

\* At most a chunk's worth of records is pulled and not reported.
NoReadAhead == Unreported <= batch_size

\* A step that pulls a record starts with less than a full chunk unreported.
PullsAfterReport == pulled' > pulled => Unreported < batch_size

\* C25: get_batches never reads ahead: at every point of a run the records
\* pulled and not in a reported chunk are at most the chunk size, and a record
\* is pulled only once the entry of every full chunk has been emitted.
C25_NoReadAhead == []NoReadAhead /\ [][PullsAfterReport]_vars

\* C25's case: a full chunk of three records written and not yet reported,
\* while a fourth record waits in the source.
C25_Witness ==
    /\ bpc = "seal_yield" /\ batch_size = 3 /\ Unreported = 3
    /\ pulled < Len(source)

\* The chunk files with an open handle or an open compression stream.
OpenChunkFiles == open_f \cup open_gz

AtMostOneOpen == Cardinality(OpenChunkFiles) <= 1

\* A step that opens a file starts with every earlier chunk's compression
\* stream and file handle closed.
OpensAfterClose ==
    (open_f' \ open_f # {} \/ open_gz' \ open_gz # {}) => OpenChunkFiles = {}

\* C26: during a run at most one chunk file is open at any time, and a file is
\* opened only when the previous chunk's compression stream and file handle
\* have both been closed.
C26_OneOpenFile == []AtMostOneOpen /\ [][OpensAfterClose]_vars

\* C26's case: the second chunk file is open, the first is closed and reported.
C26_Witness ==
    /\ Len(manifests) = 1 /\ ManifestFile(1) \notin OpenChunkFiles
    /\ open_f = {FileName(sync_id, 2)} /\ open_gz = {FileName(sync_id, 2)}

\* -------------------------------------------------- claims: the conformer
\* C4 as stated: the keys of the returned record are schema property names,
\* also when the raw record has a UUID or Decimal under a key the schema lacks.
C4_KeysWithinSchema == DOMAIN cout \subseteq DOMAIN cschema

\* The warnings logged so far that name the key.
WarningsNaming(key) == {w \in warnings : key \in w[2]}

\* C17 as stated: over all the records and streams conformed in one process,
\* no key name absent from the schema is named by more than one warning.
C17_OneWarningPerKey ==
    \A key \in Keys : Cardinality(WarningsNaming(key)) <= 1

\* The classes of value the post-pass rewrites.
PostPassKinds == {"uuid", "decimal"}

\* C18: after any call, every Decimal of the raw record is in the result as the
\* float of the same value and every UUID as its string; every other entry of
\* the result is what the schema-driven conversion alone returned.
C18_PostPass ==
    cin # <<>> =>
      LET generic == conform_record_data_types(cin, cschema) IN
      /\ \A name \in DOMAIN cin :
            /\ cin[name].kind = "decimal" =>
                 name \in DOMAIN cout /\ cout[name] = Val("float", cin[name].v)
            /\ cin[name].kind = "uuid" =>
                 name \in DOMAIN cout /\ cout[name] = Val("str", cin[name].v)
      /\ \A name \in DOMAIN cout :
            cin[name].kind \notin PostPassKinds =>
              name \in DOMAIN generic /\ cout[name] = generic[name]

\* C18's case: a call on a record holding a Decimal next to a plain value, both
\* declared by the schema.
C18_Witness ==
    /\ DOMAIN cin = Keys /\ DOMAIN cschema = Keys
    /\ cin["id"] = IntV(1) /\ cin["extra"].kind = "decimal"
    /\ cout["id"] = IntV(1) /\ cout["extra"] = Val("float", 15)

\* C19: after any call, every schema property whose raw value is null is in the
\* result with the value null, whatever its declared type and nullability (the
\* call returns a record in every case: the conformer has no failing outcome).
C19_NullStaysNull ==
    \A name \in (DOMAIN cin) \cap (DOMAIN cschema) :
        cin[name] = Null => name \in DOMAIN cout /\ cout[name] = Null

\* C19's case: a null in a boolean property that is not nullable, next to a null
\* in a nullable integer property.
C19_Witness ==
    /\ DOMAIN cin = Keys /\ DOMAIN cschema = Keys
    /\ cschema["id"] = Property("boolean", FALSE)
    /\ cschema["extra"] = Property("integer", TRUE)
    /\ cin["id"] = Null /\ cin["extra"] = Null
    /\ cout["id"] = Null /\ cout["extra"] = Null

\* ---------------------------------------------------- claims: get_records
CfgStart == ConfigGet(stream_config, "replication_key_value_start", None)
ConfigErrors ==
    {"KeyError", "sql is empty", "no replication_key", "no value", "no start"}
SourceErrors == {"execute", "fetch"}
\* The statement was sent to the connection.
Executed == executions # <<>>
\* Positions of get_records before line 259.
BeforeQuery == {"start", "resolve", "error"}
NamesReplicationKey == Truthy(SelfReplicationKey(stream_config))
EmptyContext == ~Truthy(context)
SqlGiven == stream_config.sql # "Absent" /\ Truthy(stream_config.sql)

\* C5: in incremental mode, when neither the state store nor the configured
\* replication_key_value_start yields a value, get_records ends in a
\* configuration error and the statement is never executed.
C5_NoStartingValueFails ==
    (IsIncremental /\ state_value = None /\ CfgStart = None) =>
        /\ ~Executed
        /\ rpc \in BeforeQuery
        /\ rpc = "error" => rerr \in ConfigErrors

\* C5's case: a stream with a replication key and no value anywhere has failed.
C5_Witness ==
    /\ IsIncremental /\ NamesReplicationKey
    /\ state_value = None /\ CfgStart = None
    /\ rpc = "error" /\ rerr = "no value" /\ state_reads = 1

\* C6: in incremental mode the statement is executed once, with exactly one
\* named parameter rep_key_val, bound to the state store's value when there is
\* one and to the configured replication_key_value_start only otherwise.
C6_IncrementalBinding ==
    (IsIncremental /\ Executed) =>
        /\ Len(executions) = 1
        /\ Len(executions[1].params) = 1
        /\ DOMAIN executions[1].params[1] = {"rep_key_val"}
        /\ executions[1].params[1].rep_key_val =
             (IF state_value # None THEN state_value ELSE CfgStart)
        /\ executions[1].params[1].rep_key_val # None

\* C6's case: both values exist and the executed statement carries the stored one.
C6_Witness ==
    /\ IsIncremental /\ state_value = "s0" /\ CfgStart = "c0"
    /\ Executed /\ executions[1].params = Params("s0")

\* C7 as stated: a full-table stream that declares no replication key but has a
\* configured replication_key_value_start executes with that value bound.
C7_FullTableStartBound ==
    (/\ ~IsIncremental /\ stream_config.replication_key = "Absent"
     /\ CfgStart # None /\ Executed) =>
        executions[1].params = Params(CfgStart)

C9_FullTableKeyWithoutStart ==
    (~IsIncremental /\ NamesReplicationKey /\ CfgStart = None) =>
        /\ ~Executed
        /\ rpc \in BeforeQuery
        /\ rpc = "error" => rerr \in ConfigErrors
        /\ (rpc = "error" /\ SqlGiven) => rerr = "no start"

\* C9's case: a stream forced to full-table that names a key has failed.
C9_Witness ==
    /\ ~IsIncremental /\ NamesReplicationKey /\ CfgStart = None
    /\ rpc = "error" /\ rerr = "no start"

\* C10: with an empty or absent SQL text get_records fails before it resolves
\* any parameter, reads the state store or executes, whatever the mode and the
\* starting values.
C10_EmptySqlFailsFirst ==
    (stream_config.sql \in {"Absent", ""}) =>
        /\ rpc \in {"start", "error"}
        /\ rpc = "error" => rerr \in {"KeyError", "sql is empty"}
        /\ ~Executed /\ state_reads = 0
        /\ multiparams = <<>> /\ rep_key = None /\ rep_key_val = None

\* C10's case: an incremental stream with a stored value and an empty SQL text.
C10_Witness ==
    /\ stream_config.sql = "" /\ IsIncremental /\ state_value # None
    /\ rpc = "error" /\ rerr = "sql is empty"

\* C11: an invocation that passes the configuration checks executes the
\* statement exactly once, however many rows are read; a failure of the
\* execution or of a row read ends the invocation in that error, and the
\* statement is not executed again.
C11_ExecutedOnce ==
    /\ Len(executions) <= 1
    /\ (rpc \in {"rows", "done"} \/ rerr \in SourceErrors) => Len(executions) = 1
    /\ rerr \in SourceErrors => rpc = "error"
    /\ rpc \in BeforeQuery /\ rerr \notin SourceErrors => ~Executed
    /\ Executed => executions[1].sql = stream_config.sql

\* C11's case: two rows were read from the one execution.
C11_Witness ==
    rpc = "done" /\ yielded = 2 /\ Len(executions) = 1

\* C11's other case: a row read failed after a row was yielded.
C11_WitnessFailure ==
    rpc = "error" /\ rerr = "fetch" /\ yielded = 1 /\ Len(executions) = 1

\* ------------------------------------------- claims: to_jsonschema_type
\* The last call returned a type for a type name.
Returned == jsonschema_type # NoneV

\* The word is in the type name of the last call, case ignored.
Contains(word) == IsSubstring(Lower(word), Lower(type_name))

\* The names of the table that come before "int" and have another type.
BeforeInt == {<<"t", "i", "m", "e", "s", "t", "a", "m", "p">>, <<"d", "a", "t", "e", "t", "i", "m", "e">>, <<"d", "a", "t", "e">>}

\* C20 as stated, for its integer part: whenever the type name contains "int",
\* the call returns the integer type.
C20_IntAlwaysInteger ==
    Returned /\ Contains(<<"i", "n", "t">>) => jsonschema_type = IntegerType

\* C20, amended: the call returns the type of the first table entry, in the
\* dict's order, whose name is in the type name, case ignored, and the string
\* type when there is none; so a name containing "int" and no earlier entry's
\* name gives integer, the same for "decimal", "float" and "double" and number,
\* a name containing "timestamp" or "datetime" gives date-time, "111" string.
C20_FirstMatchLookup ==
    Returned =>
      /\ \A k \in DOMAIN sqltype_lookup :
           ( /\ Contains(sqltype_lookup[k][1])
             /\ \A j \in 1..(k - 1) : ~Contains(sqltype_lookup[j][1]) )
           => jsonschema_type = sqltype_lookup[k][2]
      /\ (\A k \in DOMAIN sqltype_lookup : ~Contains(sqltype_lookup[k][1]))
           => jsonschema_type = StringType
      /\ ( Contains(<<"i", "n", "t">>) /\ \A w \in BeforeInt : ~Contains(w) )
           => jsonschema_type = IntegerType
      /\ ( /\ Contains(<<"d", "e", "c", "i", "m", "a", "l">>) \/ Contains(<<"f", "l", "o", "a", "t">>) \/ Contains(<<"d", "o", "u", "b", "l", "e">>)
           /\ ~Contains(<<"i", "n", "t">>) /\ \A w \in BeforeInt : ~Contains(w) )
           => jsonschema_type = NumberType
      /\ ( Contains(<<"t", "i", "m", "e", "s", "t", "a", "m", "p">>) \/ Contains(<<"d", "a", "t", "e", "t", "i", "m", "e">>) )
           => jsonschema_type = DateTimeType
      /\ type_name = <<"1", "1", "1">> => jsonschema_type = StringType

\* C20's case: a type name containing "int" and the later entry "time", and no
\* earlier entry: the call returned integer.
C20_Witness ==
    /\ Returned
    /\ Contains(<<"i", "n", "t">>) /\ Contains(<<"t", "i", "m", "e">>)
    /\ \A w \in BeforeInt : ~Contains(w)
    /\ jsonschema_type = IntegerType

\* ----------------------------------------- claims: parse_raw_sql_stream
\* The schema has been built.
Parsed == table_schema # NoneV

\* The column is declared nullable, or says nothing about it.
DeclaredNullable(column_def) == column_def.nullable \in {"Absent", "True"}

\* C21: in the schema built, a column's type admits null exactly when the
\* column is nullable (also by default), is no key property and is not the
\* replication key; every other column is required and its type has no null.
C21_NullableColumns ==
    Parsed =>
      \A k \in DOMAIN discover_config.columns :
        LET column_def == discover_config.columns[k]
            free == /\ DeclaredNullable(column_def)
                    /\ column_def.name \notin discover_config.key_properties
                    /\ column_def.name # discover_config.replication_key
            built == table_schema.properties[column_def.name]
        IN  /\ built.nullable <=> free
            /\ column_def.name \in table_schema.required <=> ~free

\* C21's case: a schema built from two columns with no nullable key, the first
\* the replication key and so required, the second left nullable.
C21_Witness ==
    /\ Parsed
    /\ Len(discover_config.columns) = 2
    /\ \A k \in 1..2 : discover_config.columns[k].nullable = "Absent"
    /\ discover_config.columns[1].name = discover_config.replication_key
    /\ discover_config.key_properties = {}
    /\ ~table_schema.properties[discover_config.columns[1].name].nullable
    /\ table_schema.properties[discover_config.columns[2].name].nullable

\* ------------------------------------- claims: several runs of get_batches
\* C22: two different runs, each with a token of its own, of one stream or of
\* two, one after the other or interleaved, never open a file of the same name.
C22_DisjointFileNames ==
    \A r1, r2 \in DOMAIN runs :
        r1 # r2 => runs[r1].opened \cap runs[r2].opened = {}

\* C22's case: two interleaved runs of the same stream, one having opened
\* eleven files and the other two, both still running.
C22_Witness ==
    /\ runs # <<>>
    /\ runs[1].stream = runs[2].stream
    /\ runs[1].pc = "iter" /\ runs[2].pc = "iter"
    /\ Cardinality(runs[1].opened) = 11
    /\ Cardinality(runs[2].opened) = 2

\* ------------------------------------------ claims: get_records, its frame
\* The state store has been asked at most once, and only by an incremental
\* invocation.
StateReadOnceIfIncremental ==
    /\ state_reads <= 1
    /\ state_reads = 1 => IsIncremental

\* A step leaves the persisted replication-key value and the stream's
\* configuration as they were.
StateAndConfigKept ==
    /\ state_value' = state_value
    /\ stream_config' = stream_config
    /\ forced_replication_method' = forced_replication_method

\* C23: no step of get_records, in an invocation that succeeds or fails,
\* changes the persisted replication-key value or the stream configuration, and
\* the state store is read at most once, and only in incremental mode.
C23_ReadsOnly == []StateReadOnceIfIncremental /\ [][StateAndConfigKept]_vars

\* C23's case: an incremental invocation that read the state store, found a
\* value there and ran to its end.
C23_Witness ==
    /\ rpc = "done" /\ IsIncremental
    /\ state_reads = 1 /\ state_value = "s0"
    /\ executions[1].params = Params("s0")

\* C23's case on failure: a full-table invocation that failed on its
\* configuration without reading the state store.
C23_WitnessFailure ==
    rpc = "error" /\ ~IsIncremental /\ rerr = "no start" /\ state_reads = 0

====
